---- MODULE Spec2Model ----
(***************************************************************************)
(* Model of the debug-telemetry decoder of rusty-peanut:                   *)
(*   src/src/debugobjects.rs  DebugLine, ScopeConfig, ScopeSignalConfig,   *)
(*                            Scope, DebugObjects                          *)
(*   src/src/parser.rs        the nom grammar: color_value_parser,         *)
(*                            scope_definition_parser                      *)
(*   src/src/serial.rs        LineProtocol, the reader thread of           *)
(*                            SerialConnector and its channel              *)
(* A text line is a sequence of one-character strings, a token is a        *)
(* non-empty sequence of non-whitespace characters.  An f32 is a record    *)
(* [nan, v]: either NaN or the integer v (the lines of the model carry no  *)
(* fractions, exponents or infinities).                                    *)
(***************************************************************************)
EXTENDS Integers, Sequences, FiniteSets

VARIABLES
    objects,   \* DebugObjects.objects: HashMap<String, DebugObject>
    status,    \* "running", or how the last call of DebugObjects::feed ended
               \* when it did not return: "panicked", "hung"
    last,      \* the line of the last call of DebugObjects::feed and the
               \* branch of the code that handled it
    nfed,      \* number of calls of DebugObjects::feed so far
    fed,       \* the values of the single-value rows fed so far, in feed order
    arg,       \* the argument of a call of one function on its own; on the
               \* serial side the bytes of the last read
    result,    \* what that call returned; [called |-> FALSE] before the call
    bytes,     \* LineProtocol.bytes: the bytes since the last terminator
    wire,      \* every byte port.read has returned so far, in order
    chan,      \* the lines sent to the channel and not yet received
    received   \* the lines the consumer has received, in order

vars ==
    <<objects, status, last, nfed, fed, arg, result, bytes, wire, chan, received>>

(***************************************************************************)
(* Bounds of the model.                                                    *)
(***************************************************************************)
MaxLines == 5

\* single-value rows fed to one signal in the round-trip runs
MaxRows == 5

\* bytes the serial port delivers in a run, and the most one read returns
MaxBytes == 5

MaxChunk == 2

\* characters of a line handed to DebugLine::from_str on its own
MaxLineLen == 4

\* clauses after the name in a token list handed to Scope::new on its own
MaxClauses == 3

\* characters of the level of a GRAY colour handed to color_value_parser
MaxDigits == 2

(***************************************************************************)
(* Characters and numbers.                                                 *)
(***************************************************************************)
Digits == <<"0", "1", "2", "3", "4", "5", "6", "7", "8", "9">>

IsDigit(c) == \E i \in 1..Len(Digits) : Digits[i] = c

DigitVal(c) == (CHOOSE i \in 1..Len(Digits) : Digits[i] = c) - 1

AllDigits(s) == \A i \in 1..Len(s) : IsDigit(s[i])

RECURSIVE Decimal(_)
Decimal(s) ==
    IF s = <<>> THEN 0
    ELSE Decimal(SubSeq(s, 1, Len(s) - 1)) * 10 + DigitVal(s[Len(s)])

\* the character U+0060 (grave accent), the sigil of the protocol; a TLA+
\* string cannot hold it, so this one character is written as a word
Sigil == "grave"

\* a tokenizer that separates tokens at commas too
IsWhite_or_comma(c) == c \in {" ", "\t", ","}

\* char::is_whitespace, for the characters of the model
IsWhite(c) == c \in {" ", "\t"}

\* an f32 value
F(n) == [nan |-> FALSE, v |-> n]

NaN == [nan |-> TRUE, v |-> 0]

\* the comparisons of f32: every comparison with NaN is false
FLe(a, b) == ~a.nan /\ ~b.nan /\ a.v <= b.v

FLt(a, b) == ~a.nan /\ ~b.nan /\ a.v < b.v

\* str::starts_with of a one-character pattern
StartsWith(s, c) == Len(s) >= 1 /\ s[1] = c

\* str::ends_with of a one-character pattern
EndsWith(s, c) == Len(s) >= 1 /\ s[Len(s)] = c

\* str::parse::<f32>: an optional sign, then decimal digits or NaN
ParseF32(tok) ==
    LET signed == StartsWith(tok, "+") \/ StartsWith(tok, "-")
        body == IF signed THEN Tail(tok) ELSE tok
    IN  IF body = <<"N", "a", "N">> THEN [ok |-> TRUE, v |-> NaN]
        ELSE IF body # <<>> /\ AllDigits(body)
             THEN [ok |-> TRUE,
                   v |-> F(IF StartsWith(tok, "-") THEN 0 - Decimal(body)
                           ELSE Decimal(body))]
        ELSE [ok |-> FALSE, v |-> F(0)]

\* str::parse::<usize>: an optional "+", then decimal digits
ParseUsize(tok) ==
    LET body == IF StartsWith(tok, "+") THEN Tail(tok) ELSE tok
    IN  IF body # <<>> /\ AllDigits(body)
        THEN [ok |-> TRUE, v |-> Decimal(body)]
        ELSE [ok |-> FALSE, v |-> 0]

\* str::split_whitespace: the maximal runs of non-whitespace characters
RECURSIVE SplitWhitespace(_, _, _)
SplitWhitespace(s, cur, out) ==
    IF s = <<>> THEN (IF cur = <<>> THEN out ELSE Append(out, cur))
    ELSE IF IsWhite(Head(s))
         THEN SplitWhitespace(Tail(s), <<>>,
                              IF cur = <<>> THEN out ELSE Append(out, cur))
    ELSE SplitWhitespace(Tail(s), Append(cur, Head(s)), out)

\* str::split("'"): the pieces between quote marks, empty pieces included
RECURSIVE SplitQuote(_, _, _)
SplitQuote(s, cur, out) ==
    IF s = <<>> THEN Append(out, cur)
    ELSE IF Head(s) = "'" THEN SplitQuote(Tail(s), <<>>, Append(out, cur))
    ELSE SplitQuote(Tail(s), Append(cur, Head(s)), out)

\* the piece at index len / 2 of the split on quote marks
strip_single_quotes(input) ==
    LET v == SplitQuote(input, <<>>, <<>>)
    IN  v[(Len(v) \div 2) + 1]

(***************************************************************************)
(* The grammar: DebugLine, ScopeConfig, ScopeSignalConfig.                 *)
(***************************************************************************)
\* Err(e) of a Result
Err(e) == [ok |-> FALSE, err |-> e]

\* the DebugLine of the tokens of a line
LineOfTokens_keep_sigil(tokens) ==
    IF Len(tokens) > 0 /\ StartsWith(tokens[1], Sigil)
    THEN [ok |-> TRUE, keyword |-> tokens[1], tokens |-> Tail(tokens)]
    ELSE Err("InvalidFormat")

LineOfTokens(tokens) ==
    IF Len(tokens) > 0 /\ StartsWith(tokens[1], Sigil)
    THEN [ok |-> TRUE, keyword |-> Tail(tokens[1]), tokens |-> Tail(tokens)]
    ELSE Err("InvalidFormat")

\* DebugLine::from_str
DebugLine_from_str(line) ==
    LineOfTokens(SelectSeq(SplitWhitespace(line, <<>>, <<>>),
                           LAMBDA part : Len(part) > 0))

kSCOPE == <<"S", "C", "O", "P", "E">>

kSIZE == <<"S", "I", "Z", "E">>

kSAMPLES == <<"S", "A", "M", "P", "L", "E", "S">>

DefaultSamples == 256

DefaultSize == <<F(255), F(256)>>

\* the ? of parse::<..>()?: a ParseFloatError or ParseIntError becomes
\* ParseNumberError
Parsed(p) == IF p.ok THEN p ELSE Err("ParseNumberError")

\* tokens.get(index).ok_or(IndexError)?.parse::<f32>()?   (index from 0)
GetF32(tokens, index) ==
    IF index >= Len(tokens) THEN Err("IndexError")
    ELSE Parsed(ParseF32(tokens[index + 1]))

\* tokens.get(index).ok_or(IndexError)?.parse::<usize>()?   (index from 0)
GetUsize(tokens, index) ==
    IF index >= Len(tokens) THEN Err("IndexError")
    ELSE Parsed(ParseUsize(tokens[index + 1]))

RECURSIVE ScanConfig(_, _, _, _)

\* the SIZE branch of the loop, width and height as Results
ScanSize(tokens, index, samples, width, height) ==
    IF ~width.ok THEN width
    ELSE IF ~height.ok THEN height
    ELSE ScanConfig(tokens, index + 3, <<width.v, height.v>>, samples)

\* the SAMPLES branch of the loop, n as a Result
ScanSamples(tokens, index, size, n) ==
    IF ~n.ok THEN n
    ELSE ScanConfig(tokens, index + 2, size, n.v)

\* the while loop of ScopeConfig::from_tokens, index counted from 0
ScanConfig_skip_unknown(tokens, index, size, samples) ==
    IF ~(index < Len(tokens)) THEN [ok |-> TRUE, size |-> size, samples |-> samples]
    ELSE IF tokens[index + 1] = kSIZE
         THEN ScanSize(tokens, index, samples,
                       GetF32(tokens, index + 1), GetF32(tokens, index + 2))
    ELSE IF tokens[index + 1] = kSAMPLES
         THEN ScanSamples(tokens, index, size, GetUsize(tokens, index + 1))
    ELSE ScanConfig(tokens, index + 1, size, samples)

ScanConfig(tokens, index, size, samples) ==
    IF ~(index < Len(tokens)) THEN [ok |-> TRUE, size |-> size, samples |-> samples]
    ELSE IF tokens[index + 1] = kSIZE
         THEN ScanSize(tokens, index, samples,
                       GetF32(tokens, index + 1), GetF32(tokens, index + 2))
    ELSE IF tokens[index + 1] = kSAMPLES
         THEN ScanSamples(tokens, index, size, GetUsize(tokens, index + 1))
    ELSE [ok |-> TRUE, size |-> size, samples |-> samples]

\* the ScopeConfig built at the end of ScopeConfig::from_tokens
ConfigOf(tokens, scan) ==
    IF ~scan.ok THEN scan
    ELSE [ok |-> TRUE,
          name |-> strip_single_quotes(tokens[1]),
          size |-> scan.size,
          samples |-> scan.samples]

\* ScopeConfig::from_tokens
ScopeConfig_from_tokens(tokens) ==
    IF Len(tokens) = 0 THEN Err("NoNameGiven")
    ELSE ConfigOf(tokens, ScanConfig(tokens, 1, DefaultSize, DefaultSamples))

\* COLOR_MAP of debugobjects.rs: the colour of a colour name, if it has one
COLOR_MAP ==
    [key \in {<<"B", "L", "A", "C", "K">>, <<"W", "H", "I", "T", "E">>,
              <<"O", "R", "A", "N", "G", "E">>, <<"B", "L", "U", "E">>,
              <<"G", "R", "E", "E", "N">>, <<"C", "Y", "A", "N">>,
              <<"R", "E", "D">>, <<"M", "A", "G", "E", "N", "T", "A">>,
              <<"Y", "E", "L", "L", "O", "W">>} |->
        CASE key = <<"B", "L", "A", "C", "K">> -> "BLACK"
          [] key = <<"W", "H", "I", "T", "E">> -> "WHITE"
          [] key = <<"O", "R", "A", "N", "G", "E">> -> "ORANGE"
          [] key = <<"B", "L", "U", "E">> -> "BLUE"
          [] key = <<"G", "R", "E", "E", "N">> -> "GREEN"
          [] key = <<"C", "Y", "A", "N">> -> "CYAN"
          [] key = <<"R", "E", "D">> -> "RED"
          [] key = <<"M", "A", "G", "E", "N", "T", "A">> -> "MAGENTA"
          [] OTHER -> "YELLOW"]

\* the optional legend and colour tokens of ScopeSignalConfig::from_tokens
SignalColor(tokens) ==
    IF Len(tokens) >= 6 /\ StartsWith(tokens[6], "%") /\ Len(tokens) >= 7
    THEN IF tokens[7] \in DOMAIN COLOR_MAP THEN COLOR_MAP[tokens[7]] ELSE "YELLOW"
    ELSE "YELLOW"

\* the ScopeSignalConfig built at the end of ScopeSignalConfig::from_tokens,
\* the four mandatory numbers as Results
SignalConfigOf_default_y_base(tokens, min, max, y_size, y_base) ==
    IF ~min.ok THEN min
    ELSE IF ~max.ok THEN max
    ELSE IF ~y_size.ok THEN y_size
    ELSE [ok |-> TRUE,
          name |-> strip_single_quotes(tokens[1]),
          min |-> min.v, max |-> max.v,
          y_size |-> y_size.v,
          y_base |-> IF y_base.ok THEN y_base.v ELSE F(0),
          color |-> SignalColor(tokens)]

SignalConfigOf(tokens, min, max, y_size, y_base) ==
    IF ~min.ok THEN min
    ELSE IF ~max.ok THEN max
    ELSE IF ~y_size.ok THEN y_size
    ELSE IF ~y_base.ok THEN y_base
    ELSE [ok |-> TRUE,
          name |-> strip_single_quotes(tokens[1]),
          min |-> min.v, max |-> max.v,
          y_size |-> y_size.v, y_base |-> y_base.v,
          color |-> SignalColor(tokens)]

\* ScopeSignalConfig::from_tokens
ScopeSignalConfig_from_tokens(tokens) ==
    IF Len(tokens) = 0 THEN Err("NoNameGiven")
    ELSE SignalConfigOf(tokens, GetF32(tokens, 1), GetF32(tokens, 2),
                        GetF32(tokens, 3), GetF32(tokens, 4))

(***************************************************************************)
(* Scope: new, feed_floats, setup_signal, feed.                            *)
(***************************************************************************)
\* the Scope built by Scope::new from the Result of ScopeConfig::from_tokens
ScopeOf(config) ==
    IF ~config.ok THEN config
    ELSE [ok |-> TRUE,
          scope |-> [name |-> config.name,
                     samples |-> config.samples,
                     size |-> config.size,
                     signals |-> <<>>]]

\* Scope::new
Scope_new(tokens) == ScopeOf(ScopeConfig_from_tokens(tokens))

\* f32::clamp asserts min <= max (false when min > max or either is NaN)
ClampPanics(min, max) == ~FLe(min, max)

\* f32::clamp, when it does not panic: NaN stays NaN
clamp(x, min, max) ==
    IF FLt(x, min) THEN min
    ELSE IF FLt(max, x) THEN max
    ELSE x

\* Evict with the comparison off by one: > for >=
RECURSIVE Evict_gt(_, _)
Evict_gt(values, samples) ==
    IF Len(values) > samples THEN Evict_gt(Tail(values), samples)
    ELSE [hung |-> FALSE, values |-> values]

\* while signal.values.len() >= samples { signal.values.pop_front(); }
\* pop_front leaves an empty deque empty, so the loop runs for ever when the
\* condition holds of the empty deque
RECURSIVE Evict(_, _)
Evict(values, samples) ==
    IF Len(values) >= samples
    THEN IF values = <<>> THEN [hung |-> TRUE, values |-> values]
         ELSE Evict(Tail(values), samples)
    ELSE [hung |-> FALSE, values |-> values]

\* the scope with the history of its signal i replaced
WithValues(scope, i, values) ==
    [scope EXCEPT !.signals[i].values = values]

RECURSIVE FeedZip(_, _, _)

\* the end of the closure for the pair i: kept is the outcome of the
\* eviction loop
AfterEvict(scope, values, i, kept) ==
    IF kept.hung
    THEN [end |-> "hung", scope |-> WithValues(scope, i, kept.values)]
    ELSE FeedZip(WithValues(scope, i, kept.values), values, i + 1)

\* the closure of Scope::feed_floats for the pair i: clamp, push_back, evict
FeedOne(scope, values, i, signal) ==
    IF ClampPanics(signal.min, signal.max)
    THEN [end |-> "panicked", scope |-> scope]
    ELSE AfterEvict(scope, values, i,
             Evict(Append(signal.values, clamp(values[i], signal.min, signal.max)),
                   scope.samples))

\* the closure of Scope::feed_floats applied to the pairs i, i+1, ... of
\* signals.iter_mut().zip(values)
FeedZip(scope, values, i) ==
    IF i > Len(scope.signals) \/ i > Len(values)
    THEN [end |-> "returned", scope |-> scope]
    ELSE FeedOne(scope, values, i, scope.signals[i])

\* Scope::feed_floats
feed_floats_equal_lengths(scope, values) ==
    IF Len(values) # Len(scope.signals)
    THEN [end |-> "returned", scope |-> scope]
    ELSE FeedZip(scope, values, 1)

feed_floats(scope, values) == FeedZip(scope, values, 1)

\* the push of Scope::setup_signal done before the declaration is validated
Attach_partial(scope, sc) ==
    [ok |-> sc.ok,
     scope |-> [scope EXCEPT !.signals =
         Append(@, [name |-> IF sc.ok THEN sc.name ELSE <<>>,
                    min |-> IF sc.ok THEN sc.min ELSE F(0),
                    max |-> IF sc.ok THEN sc.max ELSE F(0),
                    y_size |-> IF sc.ok THEN sc.y_size ELSE F(0),
                    y_base |-> IF sc.ok THEN sc.y_base ELSE F(0),
                    color |-> IF sc.ok THEN sc.color ELSE "YELLOW",
                    values |-> <<F(0), F(0)>>])]]

\* the ? and the push of Scope::setup_signal, sc the Result of
\* ScopeSignalConfig::from_tokens
\* a push that replaces the signals the scope held
Attach_replacing(scope, sc) ==
    IF ~sc.ok THEN [ok |-> FALSE, scope |-> scope]
    ELSE [ok |-> TRUE,
          scope |-> [scope EXCEPT !.signals =
              <<[name |-> sc.name, min |-> sc.min, max |-> sc.max,
                 y_size |-> sc.y_size, y_base |-> sc.y_base,
                 color |-> sc.color,
                 values |-> <<F(0), F(0)>>]>>]]

Attach(scope, sc) ==
    IF ~sc.ok THEN [ok |-> FALSE, scope |-> scope]
    ELSE [ok |-> TRUE,
          scope |-> [scope EXCEPT !.signals =
              Append(@, [name |-> sc.name, min |-> sc.min, max |-> sc.max,
                         y_size |-> sc.y_size, y_base |-> sc.y_base,
                         color |-> sc.color,
                         values |-> <<F(0), F(0)>>])]]

\* Scope::setup_signal
setup_signal(scope, tokens) == Attach(scope, ScopeSignalConfig_from_tokens(tokens))

\* the token of Scope::feed with one trailing comma removed
StripComma(token) ==
    IF EndsWith(token, ",") THEN SubSeq(token, 1, Len(token) - 1) ELSE token

\* the for loop of Scope::feed: err is Ok iff every token parses as f32
AllFloats(tokens) ==
    \A i \in 1..Len(tokens) : ParseF32(StripComma(tokens[i])).ok

\* the floats of Scope::feed when every token parses
Floats(tokens) ==
    [i \in 1..Len(tokens) |-> ParseF32(StripComma(tokens[i])).v]

\* the Ok arm of Scope::feed: r is the outcome of feed_floats
RowFed(r) == [end |-> r.end, path |-> "row", scope |-> r.scope]

\* the other arm of Scope::feed: r is the outcome of setup_signal
Declared(r) ==
    [end |-> "returned",
     path |-> IF r.ok THEN "signal" ELSE "dropped",
     scope |-> r.scope]

\* Scope::feed trying the signal declaration before the numeric row
DeclaredFirst(scope, tokens, d) ==
    IF d.ok THEN Declared(d)
    ELSE IF AllFloats(tokens) THEN RowFed(feed_floats(scope, Floats(tokens)))
    ELSE Declared(d)

Scope_feed_declaration_first(scope, tokens) ==
    DeclaredFirst(scope, tokens, setup_signal(scope, tokens))

\* Scope::feed: how the call ends, the branch taken, and the scope after it
Scope_feed(scope, tokens) ==
    IF AllFloats(tokens)
    THEN RowFed(feed_floats(scope, Floats(tokens)))
    ELSE Declared(setup_signal(scope, tokens))

(***************************************************************************)
(* DebugObjects: the registry.                                             *)
(***************************************************************************)
\* name answering the creating keyword instead of the declared name
name_keyword(scope) == kSCOPE

\* DebugProcessor::name for Scope
name(scope) == scope.name

\* Result::ok of DebugObjects::create
SomeScope(r) ==
    IF r.ok THEN [some |-> TRUE, object |-> r.scope] ELSE [some |-> FALSE]

\* DebugObjects::create
create(keyword, tokens) ==
    IF Len(tokens) >= 1 /\ keyword = kSCOPE
    THEN SomeScope(Scope_new(tokens))
    ELSE [some |-> FALSE]

\* HashMap::insert
Insert(map, key, value) ==
    [k \in DOMAIN map \cup {key} |-> IF k = key THEN value ELSE map[k]]

\* the Some arm of DebugObjects::feed: r is the outcome of the object's feed
Delegated_to_all(objs, keyword, r) ==
    [end |-> r.end, path |-> r.path, objects |-> [k \in DOMAIN objs |-> r.scope]]

Delegated(objs, keyword, r) ==
    [end |-> r.end, path |-> r.path, objects |-> [objs EXCEPT ![keyword] = r.scope]]

\* the None arm of DebugObjects::feed: new_object is the Option of create
Created(objs, new_object) ==
    IF new_object.some
    THEN [end |-> "returned", path |-> "created",
          objects |-> Insert(objs, name(new_object.object), new_object.object)]
    ELSE [end |-> "returned", path |-> "nofactory", objects |-> objs]

\* the match of DebugObjects::feed on the registry, dl the Result of from_str
Route(objs, dl) ==
    IF ~dl.ok
    THEN [end |-> "returned", path |-> "invalid", objects |-> objs]
    ELSE IF dl.keyword \in DOMAIN objs
    THEN Delegated(objs, dl.keyword, Scope_feed(objs[dl.keyword], dl.tokens))
    ELSE Created(objs, create(dl.keyword, dl.tokens))

\* DebugObjects::feed: how the call ends, the branch taken, the registry after
DebugObjects_feed(objs, line) == Route(objs, DebugLine_from_str(line))

(***************************************************************************)
(* The lines the device sends in this model.                               *)
(***************************************************************************)
\* the tokens joined by single spaces
RECURSIVE Join(_)
Join(tokens) ==
    IF tokens = <<>> THEN <<>>
    ELSE IF Len(tokens) = 1 THEN tokens[1]
    ELSE tokens[1] \o <<" ">> \o Join(Tail(tokens))

\* the keyword token of a line: the sigil, then the word
Key(word) == <<Sigil>> \o word

tA == <<"A">>

tB == <<"B">>

tS == <<"'", "s", "'">>

tT == <<"'", "t", "'">>

tXyz == <<"x", "y", "z">>

Num(c) == <<c>>

\* SCOPE declarations
DeclA3 == Join(<<Key(kSCOPE), tA, kSAMPLES, Num("3")>>)

DeclA == Join(<<Key(kSCOPE), tA>>)

DeclQB0 == Join(<<Key(kSCOPE), <<"'", "B", "'">>, kSAMPLES, Num("0")>>)

DeclSCOPE == Join(<<Key(kSCOPE), kSCOPE, kSAMPLES, Num("1")>>)

DeclNoName == Key(kSCOPE)

DeclBadSamples == Join(<<Key(kSCOPE), tA, kSAMPLES, tXyz>>)

DeclShortSize == Join(<<Key(kSCOPE), tA, kSIZE, Num("1")>>)

\* signal declarations: 's' with range 1..2, 't' with min 2 > max 1
SigA12 == Join(<<Key(tA), tS, Num("1"), Num("2"), Num("0"), Num("0")>>)

SigA21 == Join(<<Key(tA), tT, Num("2"), Num("1"), Num("0"), Num("0")>>)

SigB12 == Join(<<Key(tB), tS, Num("1"), Num("2"), Num("0"), Num("0")>>)

SigSCOPE12 == Join(<<Key(kSCOPE), tS, Num("1"), Num("2"), Num("0"), Num("0")>>)

\* data rows
RowA1 == Join(<<Key(tA), Num("1")>>)

RowA5 == Join(<<Key(tA), Num("5")>>)

RowANaN == Join(<<Key(tA), <<"N", "a", "N">>>>)

RowA4 == Join(<<Key(tA), <<"2", ",">>, Num("1"), Num("2"), Num("3")>>)

RowA5Tokens == Join(<<Key(tA), Num("1"), Num("1"), Num("2"), Num("0"), Num("0")>>)

RowA6Tokens ==
    Join(<<Key(tA), Num("2"), Num("1"), Num("2"), Num("0"), Num("0"), Num("7")>>)

RowB1 == Join(<<Key(tB), Num("1")>>)

\* lines that are neither
RowAJoined == Join(<<Key(tA), <<"1", ",", "2", ",", "3">>>>)

DropA == Join(<<Key(tA), tXyz>>)

UnknownZ == Join(<<Key(<<"Z">>), Num("1")>>)

NoSigil == Join(<<tA, Num("1")>>)

Blank == <<" ", "\t">>

Lines ==
    {DeclA3, DeclA, DeclQB0, DeclSCOPE, DeclNoName, DeclBadSamples, DeclShortSize,
     SigA12, SigA21, SigB12, SigSCOPE12,
     RowA1, RowA5, RowANaN, RowA4, RowA5Tokens, RowA6Tokens, RowB1,
     RowAJoined, DropA, UnknownZ, NoSigil, Blank, <<>>}

(***************************************************************************)
(* The state machine: DebugObjects::new, then one call of                  *)
(* DebugObjects::feed per line.                                            *)
(***************************************************************************)
\* DebugObjects::new
NewRegistry ==
    /\ objects = [k \in {} |-> 0]
    /\ status = "running"
    /\ last = [line |-> <<>>, path |-> "none"]
    /\ nfed = 0

\* no row counted, no single call made
NoCall == fed = <<>> /\ arg = <<>> /\ result = [called |-> FALSE]

\* LineProtocol::new and unbounded(): empty buffer, empty channel
NewSerial == bytes = <<>> /\ wire = <<>> /\ chan = <<>> /\ received = <<>>

Init == NewRegistry /\ NoCall /\ NewSerial

\* the state after a call of DebugObjects::feed(line) with outcome r
Returns(line, r) ==
    /\ objects' = r.objects
    /\ status' = IF r.end = "returned" THEN "running" ELSE r.end
    /\ last' = [line |-> line, path |-> r.path]

\* one call of DebugObjects::feed(line)
Feed(line) ==
    /\ status = "running"
    /\ nfed < MaxLines
    /\ Returns(line, DebugObjects_feed(objects, line))
    /\ nfed' = nfed + 1
    /\ UNCHANGED <<fed, arg, result, bytes, wire, chan, received>>

Next == \E line \in Lines : Feed(line)

Spec == Init /\ [][Next]_vars

(***************************************************************************)
(* Properties.                                                             *)
(***************************************************************************)
\* the DebugLine of the last line fed
LastLine == DebugLine_from_str(last.line)

\* the last call applied a data row to a scope and returned
RowApplied ==
    /\ status = "running"
    /\ last.path = "row"
    /\ LastLine.keyword \in DOMAIN objects

\* the positions that received a value in the last data row
Received ==
    {i \in 1..Len(objects[LastLine.keyword].signals) : i <= Len(LastLine.tokens)}

AllSignals ==
    {ks \in UNION {{<<k, i>> : i \in 1..Len(objects[k].signals)} : k \in DOMAIN objects} :
        TRUE}

\* C2: every value in the history of every signal lies in the signal's range
\* min..max, the values a signal holds right after its declaration included.
C2_EveryValueInRange ==
    \A ks \in AllSignals :
        LET signal == objects[ks[1]].signals[ks[2]]
        IN  \A j \in 1..Len(signal.values) :
                FLe(signal.min, signal.values[j]) /\ FLe(signal.values[j], signal.max)

\* C3: no call of DebugObjects::feed panics, whatever lines came before it
\* (a call that never returns is the subject of the termination claim).
C3_NeverPanics == status # "panicked"

\* the name a SCOPE declaration line declares: its first token, quotes stripped
DeclaredName(line) == strip_single_quotes(DebugLine_from_str(line).tokens[1])

\* C4: every registry entry is stored under the name of its object, and a
\* scope just created is stored under the name its declaration gave.
C4_KeyIsName ==
    /\ \A k \in DOMAIN objects : objects[k].name = k
    /\ last.path = "created" => DeclaredName(last.line) \in DOMAIN objects

\* a scope declared with the quoted name 'B' is registered under B
C4_Witness ==
    /\ last.line = DeclQB0
    /\ last.path = "created"
    /\ tB \in DOMAIN objects
    /\ objects[tB].name = tB

\* C5: the registry never holds an entry whose key is the word SCOPE.
C5_ScopeNeverAKey == kSCOPE \notin DOMAIN objects

\* the DebugLine of the line fed by the step
NextLine == DebugLine_from_str(last'.line)

\* the step feeds a line whose keyword is a key of the registry
StepToExisting == NextLine.ok /\ NextLine.keyword \in DOMAIN objects

\* the step feeds a SCOPE declaration that decodes, naming a registered scope
StepRedeclares ==
    /\ NextLine.ok
    /\ NextLine.keyword = kSCOPE
    /\ ScopeConfig_from_tokens(NextLine.tokens).ok
    /\ ScopeConfig_from_tokens(NextLine.tokens).name \in DOMAIN objects

\* C6: feeding a well-formed SCOPE declaration of a registered name X leaves
\* under X a fresh scope: no signals, the capacity the declaration gives.
C6_RedeclarationReplaces ==
    [][StepRedeclares =>
        LET config == ScopeConfig_from_tokens(NextLine.tokens)
        IN  /\ config.name \in DOMAIN objects'
            /\ objects'[config.name].signals = <<>>
            /\ objects'[config.name].samples = config.samples]_vars

\* the line is one the claim calls rejected, given the registry it is fed to
Rejected(objs, line) ==
    LET dl == DebugLine_from_str(line)
    IN  \/ ~dl.ok
        \/ /\ dl.ok
           /\ dl.keyword \notin DOMAIN objs
           /\ dl.keyword # kSCOPE \/ Len(dl.tokens) = 0 \/ ~Scope_new(dl.tokens).ok
        \/ /\ dl.ok
           /\ dl.keyword \in DOMAIN objs
           /\ ~AllFloats(dl.tokens)
           /\ ~ScopeSignalConfig_from_tokens(dl.tokens).ok

\* C7: a rejected line leaves the registry as it was, and the call returns.
C7_RejectedLineChangesNothing ==
    [][Rejected(objects, last'.line) =>
        objects' = objects /\ status' = "running"]_vars

\* the line `A xyz was fed to a scope A that holds a signal, and was dropped
C7_Witness ==
    /\ last.line = DropA
    /\ last.path = "dropped"
    /\ tA \in DOMAIN objects
    /\ Len(objects[tA].signals) >= 1

\* C8: a token list addressed to a registered scope in which every token
\* parses as a number leaves the number of signals of the scope unchanged;
\* a list with a token that does not parse changes the history of no signal
\* the scope had.
C8_NumericRowIsNeverADeclaration ==
    [][StepToExisting =>
        LET before == objects[NextLine.keyword].signals
            after == objects'[NextLine.keyword].signals
        IN  /\ AllFloats(NextLine.tokens) => Len(after) = Len(before)
            /\ ~AllFloats(NextLine.tokens) =>
                   /\ Len(after) >= Len(before)
                   /\ \A i \in 1..Len(before) : after[i].values = before[i].values]_vars

\* five numeric tokens, which would decode as a signal declaration, were fed
\* to scope A as a row: A still has its one signal, which took the first value
C8_Witness ==
    /\ last.line = RowA5Tokens
    /\ last.path = "row"
    /\ status = "running"
    /\ Len(objects[tA].signals) = 1
    /\ objects[tA].signals[1].values[Len(objects[tA].signals[1].values)] = F(1)

\* the step feeds a row of one value to a scope of capacity above 2 whose
\* only signal, of a range min <= max, was declared by the previous line
StepFirstRow ==
    /\ StepToExisting
    /\ last.path = "signal"
    /\ LastLine.keyword = NextLine.keyword
    /\ Len(objects[NextLine.keyword].signals) = 1
    /\ objects[NextLine.keyword].samples > 2
    /\ ~ClampPanics(objects[NextLine.keyword].signals[1].min,
                    objects[NextLine.keyword].signals[1].max)
    /\ Len(NextLine.tokens) = 1
    /\ AllFloats(NextLine.tokens)

\* C9: the history of a signal is exactly the clamped values fed to it since
\* its declaration; stated for the first row v1: the history is <<clamp(v1)>>.
C9_HistoryIsWhatWasFed ==
    [][StepFirstRow =>
        LET signal == objects[NextLine.keyword].signals[1]
        IN  objects'[NextLine.keyword].signals[1].values =
                <<clamp(Floats(NextLine.tokens)[1], signal.min, signal.max)>>]_vars

\* the step feeds the line `A 1,2,3 to a registry in which A has one signal
StepJoinedRow ==
    /\ last'.line = RowAJoined
    /\ tA \in DOMAIN objects
    /\ Len(objects[tA].signals) = 1

DeclASamples(c) == Join(<<Key(kSCOPE), tA, kSAMPLES, Num(c)>>)

\* the capacities declared: the argument as written, and the number meant
Capacities == {<<"0", 0>>, <<"1", 1>>, <<"2", 2>>, <<"3", 3>>, <<"4", 4>>}

\* the single-value rows: the line, and the value it carries
RowValues == {<<RowA1, F(1)>>, <<RowA5, F(5)>>, <<RowANaN, NaN>>}

\* the registry after DebugObjects::feed of each of the lines in turn
RECURSIVE FedAll(_, _)
FedAll(objs, lines) ==
    IF lines = <<>> THEN objs
    ELSE FedAll(DebugObjects_feed(objs, Head(lines)).objects, Tail(lines))

\* the registry after `SCOPE A SAMPLES k and `A 's' 1 2 0 0 were fed
InitRows ==
    /\ \E c \in Capacities :
        /\ objects = FedAll([k \in {} |-> 0], <<DeclASamples(c[1]), SigA12>>)
        /\ arg = c[2]
    /\ status = "running"
    /\ last = [line |-> SigA12, path |-> "signal"]
    /\ nfed = 2
    /\ fed = <<>>
    /\ result = [called |-> FALSE]
    /\ NewSerial

\* one call of DebugObjects::feed with a single-value row
FeedRow(row) ==
    /\ status = "running"
    /\ Len(fed) < MaxRows
    /\ Returns(row[1], DebugObjects_feed(objects, row[1]))
    /\ nfed' = nfed + 1
    /\ fed' = Append(fed, row[2])
    /\ UNCHANGED <<arg, result, bytes, wire, chan, received>>

NextRows == \E row \in RowValues : FeedRow(row)

SpecRows == InitRows /\ [][NextRows]_vars

\* v limited to lo..hi, NaN left as it is
Limited(v, lo, hi) ==
    IF v.nan THEN v ELSE IF v.v < lo THEN F(lo) ELSE IF v.v > hi THEN F(hi) ELSE v

\* the last n elements of s
LastOf(s, n) == [i \in 1..n |-> s[Len(s) - n + i]]

CR == 13

LF == 10

\* the bytes the port delivers: LF, CR, the letter A, and the two bytes of
\* U+00E9 (0xC3 0xA9), each of which is invalid UTF-8 without the other
Bytes == {LF, CR, 65, 195, 169}

\* std::str::from_utf8(..).is_ok(), for bytes below 0xE0: an ASCII byte, or
\* a lead byte 0xC2..0xDF followed by one continuation byte 0x80..0xBF
RECURSIVE from_utf8_ok(_)
from_utf8_ok(bs) ==
    IF bs = <<>> THEN TRUE
    ELSE IF bs[1] < 128 THEN from_utf8_ok(Tail(bs))
    ELSE IF /\ bs[1] >= 194
            /\ bs[1] <= 223
            /\ Len(bs) >= 2
            /\ bs[2] >= 128
            /\ bs[2] <= 191
    THEN from_utf8_ok(Tail(Tail(bs)))
    ELSE FALSE

\* l >= 2 && bytes[l - 2] == 13 && bytes[l - 1] == 10
ends_with_crlf(bs) ==
    Len(bs) >= 2 /\ bs[Len(bs) - 1] = CR /\ bs[Len(bs)] = LF

\* s.send(line.to_string()): the line joins the channel at its tail
send_front(ch, line) == <<line>> \o ch

send(ch, line) == Append(ch, line)

\* if let Ok(s) = from_utf8(&bytes[0..len - 2]) { func(s) }, func the closure
\* of the reader thread
Emit(ch, content) == IF from_utf8_ok(content) THEN send(ch, content) ELSE ch

\* the body of the loop of LineProtocol::feed once c has been pushed: at a
\* terminator the line is handed to func and the buffer is cleared
Pushed_keep_invalid(ch, pushed) ==
    IF ends_with_crlf(pushed)
    THEN [bytes |-> IF from_utf8_ok(SubSeq(pushed, 1, Len(pushed) - 2))
                    THEN <<>> ELSE pushed,
          chan |-> Emit(ch, SubSeq(pushed, 1, Len(pushed) - 2))]
    ELSE [bytes |-> pushed, chan |-> ch]

Pushed_with_terminator(ch, pushed) ==
    IF ends_with_crlf(pushed)
    THEN [bytes |-> <<>>, chan |-> Emit(ch, pushed)]
    ELSE [bytes |-> pushed, chan |-> ch]

Pushed(ch, pushed) ==
    IF ends_with_crlf(pushed)
    THEN [bytes |-> <<>>, chan |-> Emit(ch, SubSeq(pushed, 1, Len(pushed) - 2))]
    ELSE [bytes |-> pushed, chan |-> ch]

\* LineProtocol::feed(buffer, func): st holds self.bytes and the channel the
\* closure sends to
RECURSIVE LineProtocol_feed(_, _)
LineProtocol_feed(st, buffer) ==
    IF buffer = <<>> THEN st
    ELSE LineProtocol_feed(Pushed(st.chan, Append(st.bytes, Head(buffer))),
                           Tail(buffer))

\* what one port.read can return: 1..MaxChunk bytes
Chunks == UNION {[1..n -> Bytes] : n \in 1..MaxChunk}

\* the state of the reader thread after lp.feed returned st
Fed_forgetting(st) == bytes' = <<>> /\ chan' = st.chan

Fed(st) == bytes' = st.bytes /\ chan' = st.chan

\* one pass of the loop of the reader thread: port.read returned Ok with
\* the bytes of buffer, lp.feed framed them and sent the completed lines;
\* arg keeps the bytes of this read.
\* (A read that fails, or returns no byte, changes nothing.)
Read(buffer) ==
    /\ Len(wire) + Len(buffer) <= MaxBytes
    /\ wire' = wire \o buffer
    /\ arg' = buffer
    /\ Fed(LineProtocol_feed([bytes |-> bytes, chan |-> chan], buffer))
    /\ UNCHANGED <<objects, status, last, nfed, fed, result, received>>

\* the consumer polls the receiver: the line at the head of the channel
TryRecv ==
    /\ chan # <<>>
    /\ received' = Append(received, Head(chan))
    /\ chan' = Tail(chan)
    /\ UNCHANGED <<objects, status, last, nfed, fed, arg, result, bytes, wire>>

NextSerial == (\E buffer \in Chunks : Read(buffer)) \/ TryRecv

SpecSerial == Init /\ [][NextSerial]_vars

\* the positions of s at which a CR LF pair ends
Terminators(s) == {p \in 2..Len(s) : s[p - 1] = CR /\ s[p] = LF}

\* the position at which the last terminator before position p ends, or 0
PrevEnd(s, p) ==
    IF \E q \in Terminators(s) : q < p
    THEN CHOOSE q \in Terminators(s) :
             q < p /\ \A o \in Terminators(s) : o < p => o <= q
    ELSE 0

\* the bytes of s between the terminator ending at p and the one before it
Between(s, p) == SubSeq(s, PrevEnd(s, p) + 1, p - 2)

\* the elements of a set of numbers in increasing order
RECURSIVE Ascending(_)
Ascending(ps) ==
    IF ps = {} THEN <<>>
    ELSE LET least == CHOOSE p \in ps : \A q \in ps : p <= q
         IN  <<least>> \o Ascending(ps \ {least})

\* the lines of the byte stream s: the bytes between terminators that are
\* valid UTF-8, in stream order
LinesOf(s) ==
    LET ends == Ascending({p \in Terminators(s) : from_utf8_ok(Between(s, p))})
    IN  [j \in 1..Len(ends) |-> Between(s, ends[j])]

\* every line the reader thread has sent so far, in the order of sending
Sent == received \o chan

\* C12: whatever bytes were read, in whatever chunks: no more lines were
\* handed to the callback than the bytes hold CR LF pairs; the lines handed
\* over are, in order, the bytes between one terminator and the next, the
\* terminator left out; the bytes after the last terminator stay in the
\* buffer and are not handed over; without a CR LF no line is handed over.
C12_FramingBoundAndContent ==
    /\ Len(Sent) <= Cardinality(Terminators(wire))
    /\ Sent = LinesOf(wire)
    /\ bytes = SubSeq(wire, PrevEnd(wire, Len(wire) + 1) + 1, Len(wire))
    /\ Terminators(wire) = {} => Sent = <<>>

\* A CR LF A were read: the line A was handed over once, the trailing A
\* waits in the buffer
C12_Witness ==
    /\ wire = <<65, CR, LF, 65>>
    /\ Sent = <<<<65>>>>
    /\ bytes = <<65>>

\* C13: in every interleaving of reads of the reader thread and polls of
\* the consumer, the lines received are the first lines of the byte stream
\* in stream order and the channel holds exactly the lines that follow, in
\* order: none lost, duplicated or overtaken; and however many lines wait
\* in the channel, the reader thread can go on reading and sending.
C13_FifoDelivery ==
    /\ Len(received) <= Len(LinesOf(wire))
    /\ received = SubSeq(LinesOf(wire), 1, Len(received))
    /\ chan = SubSeq(LinesOf(wire), Len(received) + 1, Len(LinesOf(wire)))
    /\ Len(wire) < MaxBytes => ENABLED (\E buffer \in Chunks : Read(buffer))

\* CR LF A CR LF were read, the consumer has polled once: it holds the empty
\* line, the line A waits in the channel behind it
C13_Witness ==
    /\ wire = <<CR, LF, 65, CR, LF>>
    /\ received = <<<<>>>>
    /\ chan = <<<<65>>>>

\* the step feeds a SCOPE line that carries at least the name token, to a
\* registry in which the word SCOPE is not itself a key
StepDeclaresScope ==
    /\ NextLine.ok
    /\ NextLine.keyword = kSCOPE
    /\ kSCOPE \notin DOMAIN objects
    /\ Len(NextLine.tokens) >= 1

\* C14: a SCOPE line with at least the name token always leaves a scope
\* registered under that name, whatever follows the name: a SIZE or SAMPLES
\* argument that is missing or does not parse leaves the default in place.
C14_CreationFailsOnlyWithoutName ==
    [][StepDeclaresScope =>
        /\ strip_single_quotes(NextLine.tokens[1]) \in DOMAIN objects'
        /\ ~ScopeConfig_from_tokens(NextLine.tokens).ok =>
               objects'[strip_single_quotes(NextLine.tokens[1])].samples
                   = DefaultSamples]_vars

(***************************************************************************)
(* Scope::setup_signal on its own: one call, on a scope with no signal or  *)
(* with one, with a token list drawn from the shapes of a declaration.     *)
(***************************************************************************)
tMask == <<"%", "1", "1", "1", "1">>

tCYAN == <<"C", "Y", "A", "N">>

tRED == <<"R", "E", "D">>

tPUCE == <<"P", "U", "C", "E">>

\* the prefixes of a sequence, the empty one included
Prefixes(s) == {SubSeq(s, 1, n) : n \in 0..Len(s)}

\* name and the four mandatory tokens, each a numeral or the word xyz
Mandatory ==
    {<<tS, min, max, y_size, y_base>> :
        min \in {Num("1"), tXyz}, max \in {Num("2"), tXyz},
        y_size \in {Num("0"), tXyz}, y_base \in {Num("0"), tXyz}}

\* what may follow the mandatory tokens
Trailing ==
    {<<>>, <<tCYAN>>, <<tPUCE>>, <<tMask>>, <<tMask, tCYAN>>, <<tMask, tRED>>,
     <<tMask, tPUCE>>}

\* the token lists handed to Scope::setup_signal
SignalTokens ==
    UNION {Prefixes(m) : m \in Mandatory}
        \cup {m \o t : m \in Mandatory, t \in Trailing}

\* scope A as Scope::new builds it, and scope A after one declaration
SignalScopes ==
    {Scope_new(<<tA>>).scope,
     setup_signal(Scope_new(<<tA>>).scope,
                  <<tT, Num("2"), Num("1"), Num("0"), Num("0")>>).scope}

InitSignal ==
    /\ NewRegistry
    /\ NewSerial
    /\ fed = <<>>
    /\ arg \in [scope : SignalScopes, tokens : SignalTokens]
    /\ result = [called |-> FALSE]

\* what the caller sees after scope.setup_signal(tokens): Ok or Err, and
\* the scope
Called(r) == result' = [called |-> TRUE, ok |-> r.ok, scope |-> r.scope]

\* the call arg.scope.setup_signal(arg.tokens)
SetupSignal ==
    /\ ~result.called
    /\ Called(setup_signal(arg.scope, arg.tokens))
    /\ UNCHANGED <<objects, status, last, nfed, fed, arg, bytes, wire, chan, received>>

NextSignal == SetupSignal

SpecSignal == InitSignal /\ [][NextSignal]_vars

\* the token is one of the numerals of the token lists drawn
IsNumeral(token) == token \in {Num("0"), Num("1"), Num("2")}

\* the four mandatory numerics are all present and all numerals
AllFourGiven(tokens) ==
    Len(tokens) >= 5 /\ \A i \in 2..5 : IsNumeral(tokens[i])

\* C15: Scope::setup_signal returns an error and leaves the signal list as
\* it was when one of min, max, ySize, yBase is missing or does not parse;
\* when all four are given it appends exactly one signal, carrying the
\* declared name (quotes stripped), min and max, and keeps the others.
C15_DeclarationAllOrNothing ==
    result.called =>
        LET before == arg.scope.signals
            after == result.scope.signals
        IN  IF AllFourGiven(arg.tokens)
            THEN /\ result.ok
                 /\ Len(after) = Len(before) + 1
                 /\ SubSeq(after, 1, Len(before)) = before
                 /\ after[Len(after)].name = <<"s">>
                 /\ after[Len(after)].min = F(DigitVal(arg.tokens[2][1]))
                 /\ after[Len(after)].max = F(DigitVal(arg.tokens[3][1]))
            ELSE ~result.ok /\ after = before

\* 's' 1 2 0 with yBase missing was refused on a scope holding one signal,
\* which still holds that one signal
C15_Witness ==
    /\ result.called
    /\ arg.tokens = <<tS, Num("1"), Num("2"), Num("0")>>
    /\ Len(arg.scope.signals) = 1
    /\ ~result.ok
    /\ result.scope.signals = arg.scope.signals

\* the colour of a colour name, the default for a name COLOR_MAP lacks
ColourNamed(token) ==
    IF token \in DOMAIN COLOR_MAP THEN COLOR_MAP[token] ELSE "YELLOW"

\* C16: the signal a declaration appends is coloured by the token after
\* yBase when that token does not start with %, by the token after the mask
\* when it does, and has the default colour when there is no such token or
\* the colour name is unknown.
C16_ColourWithoutMask ==
    (result.called /\ result.ok) =>
        result.scope.signals[Len(result.scope.signals)].color =
            IF Len(arg.tokens) >= 6 /\ ~StartsWith(arg.tokens[6], "%")
            THEN ColourNamed(arg.tokens[6])
            ELSE IF Len(arg.tokens) >= 7 THEN ColourNamed(arg.tokens[7])
            ELSE "YELLOW"

\* the step feeds an all-numeric row to a registered scope, and the call
\* returns
StepRow ==
    /\ StepToExisting
    /\ AllFloats(NextLine.tokens)
    /\ status' = "running"

\* the history after is the history before with v, limited to the range of
\* the signal, appended, cut at the front to fewer values than the capacity
OneAppended(before, after, signal, v) ==
    LET pushed == Append(before, Limited(v, signal.min.v, signal.max.v))
    IN  after = LastOf(pushed, IF Len(pushed) < signal.samples
                               THEN Len(pushed) ELSE signal.samples - 1)

\* C17: an all-numeric row of r values applied to a scope with s signals
\* appends clamp(value i) to signal i for each i up to min(r, s) and to no
\* other; signals beyond r keep their histories, values beyond s are
\* ignored; the row is taken as a row whether or not r = s, and with s = 0
\* it changes nothing.
C17_PositionalPairing ==
    [][StepRow =>
        LET key == NextLine.keyword
            row == Floats(NextLine.tokens)
            before == objects[key].signals
            after == objects'[key].signals
        IN  /\ last'.path = "row"
            /\ Len(after) = Len(before)
            /\ \A i \in 1..Len(before) :
                   IF i <= Len(row)
                   THEN /\ OneAppended(before[i].values, after[i].values,
                               [min |-> before[i].min, max |-> before[i].max,
                                samples |-> objects[key].samples], row[i])
                        /\ [after[i] EXCEPT !.values = before[i].values] = before[i]
                   ELSE after[i] = before[i]
            /\ \A k \in DOMAIN objects \ {key} : objects'[k] = objects[k]
            /\ DOMAIN objects' = DOMAIN objects
            /\ Len(before) = 0 => objects' = objects]_vars

\* the row `A 2, 1 2 3 of four values was applied to scope A of two signals:
\* the first took 2, the second took 1, the values 2 and 3 went nowhere
C17_Witness ==
    /\ last.line = RowA4
    /\ last.path = "row"
    /\ status = "running"
    /\ Len(objects[tA].signals) = 2
    /\ objects[tA].signals[1].values = <<F(0), F(0), F(2)>>
    /\ objects[tA].signals[2].values = <<F(0), F(0), F(1)>>

\* the step reads bytes the last two of which complete a terminator
StepCompletesLine == wire' # wire /\ ends_with_crlf(wire')

\* C18: a read that completes a terminator leaves the buffer empty, whether
\* the bytes before the terminator were valid UTF-8 (they are sent as one
\* more line) or not (no line is sent for them); so the buffer never ends
\* in CR LF, and what an invalid line held is in no later line: the lines
\* sent are those of the earlier terminators, then this one if valid.
C18_ResyncAfterTerminator ==
    [][/\ ~ends_with_crlf(bytes')
       /\ StepCompletesLine =>
              /\ bytes' = <<>>
              /\ received' \o chan' =
                     LinesOf(SubSeq(wire', 1, Len(wire') - 2)) \o
                         IF from_utf8_ok(Between(wire', Len(wire')))
                         THEN <<Between(wire', Len(wire'))>>
                         ELSE <<>>]_vars

\* 0xC3 CR LF CR LF were read: the line of the lone byte 0xC3 was skipped,
\* the empty line after it was sent, the buffer is empty
C18_Witness ==
    /\ wire = <<195, CR, LF, CR, LF>>
    /\ Sent = <<<<>>>>
    /\ bytes = <<>>

(***************************************************************************)
(* DebugLine::from_str on its own: one call, on every line of up to        *)
(* MaxLineLen characters over the sigil, a letter, a digit, space and tab. *)
(***************************************************************************)
Chars == {Sigil, "A", "1", " ", "\t"}

TokenizerLines == UNION {[1..n -> Chars] : n \in 0..MaxLineLen}

InitTokenizer ==
    /\ NewRegistry
    /\ NewSerial
    /\ fed = <<>>
    /\ arg \in TokenizerLines
    /\ result = [called |-> FALSE]

\* what the caller sees after DebugLine::from_str(line): Err, or Ok with
\* the keyword and the tokens of the DebugLine
Tokenized(dl) ==
    result' = IF dl.ok
              THEN [called |-> TRUE, ok |-> TRUE,
                    keyword |-> dl.keyword, tokens |-> dl.tokens]
              ELSE [called |-> TRUE, ok |-> FALSE,
                    keyword |-> <<>>, tokens |-> <<>>]

\* the call DebugLine::from_str(arg)
FromStr ==
    /\ ~result.called
    /\ Tokenized(DebugLine_from_str(arg))
    /\ UNCHANGED <<objects, status, last, nfed, fed, arg, bytes, wire, chan, received>>

NextTokenizer == FromStr

SpecTokenizer == InitTokenizer /\ [][NextTokenizer]_vars

\* space or tab
Blanks == {" ", "\t"}

\* the positions of line at which a run of non-blank characters starts
WordStarts(line) ==
    {i \in 1..Len(line) :
        line[i] \notin Blanks /\ (i = 1 \/ line[i - 1] \in Blanks)}

\* the run of non-blank characters of line that starts at position i
WordAt(line, i) ==
    SubSeq(line, i,
           CHOOSE j \in i..Len(line) :
               /\ \A k \in i..j : line[k] \notin Blanks
               /\ j = Len(line) \/ line[j + 1] \in Blanks)

\* the whitespace-separated tokens of line, in order
Words(line) ==
    LET starts == Ascending(WordStarts(line))
    IN  [n \in 1..Len(starts) |-> WordAt(line, starts[n])]

C20_KeywordNonEmpty ==
    (result.called /\ result.ok) => result.keyword # <<>>

(***************************************************************************)
(* Scope::new on its own: one call, on a name followed by up to            *)
(* MaxClauses clauses, well formed or not.                                 *)
(***************************************************************************)
tMyScope == <<"M", "y", "S", "c", "o", "p", "e">>

\* the clauses: their tokens, and for the well-formed ones what they say
Clauses ==
    {[tokens |-> <<kSIZE, <<"2", "5", "4">>, <<"8", "4">>>>,
      kind |-> "size", w |-> 254, h |-> 84],
     [tokens |-> <<kSAMPLES, <<"1", "2", "8">>>>, kind |-> "samples", n |-> 128],
     [tokens |-> <<kSAMPLES, Num("3")>>, kind |-> "samples", n |-> 3],
     [tokens |-> <<<<"T", "I", "T", "L", "E">>>>, kind |-> "other"],
     [tokens |-> <<Num("7")>>, kind |-> "other"],
     [tokens |-> <<kSIZE, <<"2", "5", "4">>>>, kind |-> "malformed"],
     [tokens |-> <<kSAMPLES, tXyz>>, kind |-> "malformed"],
     [tokens |-> <<kSAMPLES>>, kind |-> "malformed"]}

\* the tokens of the clauses, one after the other
RECURSIVE Flat(_)
Flat(clauses) ==
    IF clauses = <<>> THEN <<>> ELSE Head(clauses).tokens \o Flat(Tail(clauses))

InitConfig ==
    /\ NewRegistry
    /\ NewSerial
    /\ fed = <<>>
    /\ arg \in [name : {tMyScope, <<"'", "A", "'">>},
                clauses : UNION {[1..n -> Clauses] : n \in 0..MaxClauses}]
    /\ result = [called |-> FALSE]

\* what the caller sees after Scope::new(tokens): Err, or Ok with the scope
Built(r) ==
    result' = IF r.ok
              THEN [called |-> TRUE, ok |-> TRUE, scope |-> r.scope]
              ELSE [called |-> TRUE, ok |-> FALSE, scope |-> <<>>]

\* the call Scope::new(tokens), tokens the name and the clauses of arg
NewScope ==
    /\ ~result.called
    /\ Built(Scope_new(<<arg.name>> \o Flat(arg.clauses)))
    /\ UNCHANGED <<objects, status, last, nfed, fed, arg, bytes, wire, chan, received>>

NextConfig == NewScope

SpecConfig == InitConfig /\ [][NextConfig]_vars

\* the clauses in front of the first one that is neither SIZE nor SAMPLES
RECURSIVE Scanned(_)
Scanned(clauses) ==
    IF clauses = <<>> \/ Head(clauses).kind = "other" THEN <<>>
    ELSE <<Head(clauses)>> \o Scanned(Tail(clauses))

\* the last clause of a kind among clauses, or none
LastOfKind(clauses, kind) ==
    LET at == {i \in 1..Len(clauses) : clauses[i].kind = kind}
    IN  IF at = {} THEN [kind |-> "none"]
        ELSE clauses[CHOOSE i \in at : \A j \in at : j <= i]

\* C21: when every clause in front of the first token that is neither SIZE
\* nor SAMPLES is well formed, the scope is built: its name is token 0
\* (quotes stripped), its size the last SIZE clause scanned or (255, 256),
\* its capacity the last SAMPLES clause scanned or 256, and it has no
\* signal; what follows the stopping token has no effect.
C21_ConfigDecoding ==
    (result.called
        /\ \A i \in 1..Len(Scanned(arg.clauses)) :
               Scanned(arg.clauses)[i].kind # "malformed") =>
        LET size == LastOfKind(Scanned(arg.clauses), "size")
            samples == LastOfKind(Scanned(arg.clauses), "samples")
        IN  /\ result.ok
            /\ result.scope.name = (IF arg.name = tMyScope THEN tMyScope ELSE tA)
            /\ result.scope.size =
                   (IF size.kind = "none" THEN <<F(255), F(256)>>
                    ELSE <<F(size.w), F(size.h)>>)
            /\ result.scope.samples =
                   (IF samples.kind = "none" THEN 256 ELSE samples.n)
            /\ result.scope.signals = <<>>

\* MyScope SIZE 254 84 SAMPLES 128 gave size (254, 84) and capacity 128
C21_Witness ==
    /\ result.called
    /\ arg.name = tMyScope
    /\ Flat(arg.clauses) =
           <<kSIZE, <<"2", "5", "4">>, <<"8", "4">>, kSAMPLES, <<"1", "2", "8">>>>
    /\ result.ok
    /\ result.scope.size = <<F(254), F(84)>>
    /\ result.scope.samples = 128

(***************************************************************************)
(* The nom grammar of parser.rs.  A parser takes the input, a sequence of  *)
(* characters, and returns Ok with the rest of the input and a value, or   *)
(* Err(Error); a parser that calls expect on a failed conversion panics.   *)
(***************************************************************************)
NomOk(rest, value) == [end |-> "ok", rest |-> rest, value |-> value]

NomError == [end |-> "error"]

NomPanic == [end |-> "panicked"]

\* tag(word)
tag(input, word) ==
    IF Len(input) >= Len(word) /\ SubSeq(input, 1, Len(word)) = word
    THEN NomOk(SubSeq(input, Len(word) + 1, Len(input)), word)
    ELSE NomError

\* the number of leading characters of input that are in set
RECURSIVE Leading(_, _)
Leading(input, set) ==
    IF input = <<>> \/ Head(input) \notin set THEN 0
    ELSE 1 + Leading(Tail(input), set)

\* multispace1: one or more of space, tab, carriage return, line feed
multispace1(input) ==
    IF Leading(input, {" ", "\t", "\r", "\n"}) >= 1
    THEN NomOk(SubSeq(input, Leading(input, {" ", "\t", "\r", "\n"}) + 1,
                      Len(input)), <<>>)
    ELSE NomError

\* the length of what many0(terminated(one_of("0123456789"), many0('_')))
\* recognizes: digits, each followed by any number of underscores
RECURSIVE DigitRuns(_)
DigitRuns(input) ==
    IF input = <<>> \/ ~IsDigit(Head(input)) THEN 0
    ELSE 1 + Leading(Tail(input), {"_"})
           + DigitRuns(SubSeq(input, 2 + Leading(Tail(input), {"_"}), Len(input)))

\* the end of decimal: literal.parse::<i64>().expect(..), which panics on a
\* literal holding an underscore (the literals of the model fit an i64)
DecimalOf(input, n) ==
    IF n = 0 THEN NomError
    ELSE IF ~AllDigits(SubSeq(input, 1, n)) THEN NomPanic
    ELSE NomOk(SubSeq(input, n + 1, Len(input)), Decimal(SubSeq(input, 1, n)))

\* decimal
decimal(input) == DecimalOf(input, DigitRuns(input))

\* (5 + level * 25) as u8: the cast keeps the low 8 bits
GrayLevel(level) == (5 + level * 25) % 256

\* Color::new(level, level, level)
GrayOf(d) ==
    IF d.end # "ok" THEN d
    ELSE NomOk(d.rest, [r |-> GrayLevel(d.value), g |-> GrayLevel(d.value),
                        b |-> GrayLevel(d.value)])

\* separated_pair(.., multispace1, decimal) once the keyword has matched
SpaceThenDecimal(sp) == IF sp.end # "ok" THEN sp ELSE decimal(sp.rest)

\* alt((tag("GRAY"), tag("GREY")))
GrayKeyword(input) ==
    IF tag(input, <<"G", "R", "A", "Y">>).end = "ok"
    THEN tag(input, <<"G", "R", "A", "Y">>)
    ELSE tag(input, <<"G", "R", "E", "Y">>)

\* separated_pair(keyword, multispace1, decimal), kw the outcome of keyword
AfterKeyword(kw) ==
    IF kw.end # "ok" THEN kw ELSE SpaceThenDecimal(multispace1(kw.rest))

\* gray_color_parser
gray_color_parser(input) == GrayOf(AfterKeyword(GrayKeyword(input)))

\* the colour names of named_color_parser, in the order of its alt
ColourNames ==
    <<<<"B", "L", "A", "C", "K">>, <<"W", "H", "I", "T", "E">>,
      <<"O", "R", "A", "N", "G", "E">>, <<"B", "L", "U", "E">>,
      <<"G", "R", "E", "E", "N">>, <<"C", "Y", "A", "N">>, <<"R", "E", "D">>,
      <<"M", "A", "G", "E", "N", "T", "A">>, <<"Y", "E", "L", "L", "O", "W">>>>

\* named_color_parser: the first name that matches, looked up in COLOR_MAP
named_color_parser(input) ==
    IF \E i \in 1..Len(ColourNames) : tag(input, ColourNames[i]).end = "ok"
    THEN LET first == CHOOSE i \in 1..Len(ColourNames) :
                          /\ tag(input, ColourNames[i]).end = "ok"
                          /\ \A j \in 1..(i - 1) : tag(input, ColourNames[j]).end # "ok"
         IN  NomOk(tag(input, ColourNames[first]).rest,
                   [named |-> COLOR_MAP[ColourNames[first]]])
    ELSE NomError

\* alt((a, b)): b on the input when a returned Err(Error)
OrElse(a, b) == IF a.end = "error" THEN b ELSE a

\* color_value_parser
color_value_parser(input) ==
    OrElse(gray_color_parser(input), named_color_parser(input))

(***************************************************************************)
(* color_value_parser on its own: one call, on GRAY or GREY followed by a  *)
(* level of up to MaxDigits digits or underscores, or on a colour name.    *)
(***************************************************************************)
LevelChars == {"0", "1", "2", "3", "4", "5", "6", "7", "8", "9", "_"}

ColourTexts ==
    {word \o <<" ">> \o level :
        word \in {<<"G", "R", "A", "Y">>, <<"G", "R", "E", "Y">>},
        level \in UNION {[1..n -> LevelChars] : n \in 1..MaxDigits}}
    \cup {tCYAN, tPUCE, <<"G", "R", "A", "Y">>}

InitColour ==
    /\ NewRegistry
    /\ NewSerial
    /\ fed = <<>>
    /\ arg \in ColourTexts
    /\ result = [called |-> FALSE]

\* what the caller sees after a parser returned r
Parsed_by(r) ==
    result' = IF r.end = "ok"
              THEN [called |-> TRUE, end |-> "ok", rest |-> r.rest, value |-> r.value]
              ELSE [called |-> TRUE, end |-> r.end, rest |-> <<>>, value |-> <<>>]

\* the call color_value_parser(arg)
ParseColour ==
    /\ ~result.called
    /\ Parsed_by(color_value_parser(arg))
    /\ UNCHANGED <<objects, status, last, nfed, fed, arg, bytes, wire, chan, received>>

NextColour == ParseColour

SpecColour == InitColour /\ [][NextColour]_vars

\* the text is GRAY or GREY, one space, and digits only
IsGrayText(text) ==
    /\ Len(text) >= 6
    /\ SubSeq(text, 1, 5) \in
           {<<"G", "R", "A", "Y", " ">>, <<"G", "R", "E", "Y", " ">>}
    /\ \A i \in 6..Len(text) : text[i] \in LevelChars \ {"_"}

\* the number the digits of the text from position i on say, after acc
RECURSIVE LevelSaid(_, _, _)
LevelSaid(text, i, acc) ==
    IF i > Len(text) THEN acc
    ELSE LevelSaid(text, i + 1, 10 * acc + DigitVal(text[i]))

\* C22: GRAY n and GREY n decode, for every level n, to the colour whose
\* three channels are 5 + 25 n, limited to 255.
C22_GrayscaleMapping ==
    (result.called /\ IsGrayText(arg)) =>
        /\ result.end = "ok"
        /\ result.value.r = (IF 5 + 25 * LevelSaid(arg, 6, 0) > 255
                             THEN 255 ELSE 5 + 25 * LevelSaid(arg, 6, 0))
        /\ result.value.g = result.value.r
        /\ result.value.b = result.value.r

\* the signal without its history
Declaration(signal) == [signal EXCEPT !.values = <<>>]

\* the call of the step declares (again) the scope stored under key k
Redeclares(k) == last'.path = "created" /\ DeclaredName(last'.line) = k

\* C23: across a call of DebugObjects::feed no registry key is lost; every
\* scope the call does not declare again keeps its capacity and its signals
\* in order (name, range and the rest of each declaration), gaining at most
\* one signal at the end; and a scope gets its first signal only by a
\* signal declaration that succeeds.
C23_AppendOnly ==
    [][/\ DOMAIN objects \subseteq DOMAIN objects'
       /\ \A k \in DOMAIN objects :
              ~Redeclares(k) =>
                  /\ objects'[k].samples = objects[k].samples
                  /\ Len(objects'[k].signals) \in
                         {Len(objects[k].signals), Len(objects[k].signals) + 1}
                  /\ \A i \in 1..Len(objects[k].signals) :
                         Declaration(objects'[k].signals[i])
                             = Declaration(objects[k].signals[i])
                  /\ (Len(objects[k].signals) = 0 /\ Len(objects'[k].signals) = 1)
                         => last'.path = "signal"]_vars

\* scope A, holding signal s, was given signal t by the last line: it holds
\* s and t in that order
C23_Witness ==
    /\ last.line = SigA21
    /\ last.path = "signal"
    /\ Len(objects[tA].signals) = 2
    /\ objects[tA].signals[1].name = <<"s">>
    /\ objects[tA].signals[2].name = <<"t">>

\* C24: a data row applied to a scope that holds a signal finishes, whatever
\* capacity SAMPLES gave the scope, 0 and 1 included: the eviction loop of
\* Scope::feed_floats stops after finitely many pops.
C24_FeedingTerminates ==
    (last.path = "row" /\ Len(fed) >= 1) => status # "hung"

\* the keys whose entry the step adds, removes or changes
Changed ==
    {k \in DOMAIN objects \cup DOMAIN objects' :
        \/ k \notin DOMAIN objects
        \/ k \notin DOMAIN objects'
        \/ objects'[k] # objects[k]}

\* C25: a call DebugObjects::feed(line) with keyword K changes no registry
\* entry but one: the entry K when K is a key, and otherwise, when K is the
\* word SCOPE, the entry of the name the declaration gives; a line to scope
\* A leaves every other scope as it was.
C25_OneEntryPerLine ==
    [][\A k \in Changed :
           /\ NextLine.ok
           /\ IF NextLine.keyword \in DOMAIN objects
              THEN k = NextLine.keyword
              ELSE /\ NextLine.keyword = kSCOPE
                   /\ Len(NextLine.tokens) >= 1
                   /\ k = strip_single_quotes(NextLine.tokens[1])]_vars

\* scopes A and B each hold a signal; the row `A 1 went into A's history
\* and B's history is as its declaration left it
C25_Witness ==
    /\ last.line = RowA1
    /\ last.path = "row"
    /\ status = "running"
    /\ tA \in DOMAIN objects
    /\ tB \in DOMAIN objects
    /\ Len(objects[tA].signals) = 1
    /\ Len(objects[tB].signals) = 1
    /\ objects[tA].signals[1].values = <<F(0), F(0), F(1)>>
    /\ objects[tB].signals[1].values = <<F(0), F(0)>>

\* C26: however the bytes read so far were cut into reads, a cut between
\* the CR and the LF of a terminator included, the lines sent and the bytes
\* left in the buffer are those of one call of LineProtocol::feed, on a new
\* LineProtocol, with all the bytes at once.
C26_ChunkingIndependence ==
    /\ Sent = LineProtocol_feed([bytes |-> <<>>, chan |-> <<>>], wire).chan
    /\ bytes = LineProtocol_feed([bytes |-> <<>>, chan |-> <<>>], wire).bytes

\* A CR LF A were read, the last read being LF A: the reads were cut between
\* CR and LF, and the line A was sent and A is left, as in one call
C26_Witness ==
    /\ wire = <<65, CR, LF, 65>>
    /\ arg = <<LF, 65>>
    /\ Sent = <<<<65>>>>
    /\ bytes = <<65>>

(***************************************************************************)
(* The nom grammar of a SCOPE declaration: scope_definition_parser and     *)
(* the parsers it is built from.                                           *)
(***************************************************************************)
\* the characters alphanumeric1 accepts
AlphaNumerics ==
    {"a", "b", "c", "d", "e", "f", "g", "h", "i", "j", "k", "l", "m", "n", "o",
     "p", "q", "r", "s", "t", "u", "v", "w", "x", "y", "z",
     "A", "B", "C", "D", "E", "F", "G", "H", "I", "J", "K", "L", "M", "N", "O",
     "P", "Q", "R", "S", "T", "U", "V", "W", "X", "Y", "Z",
     "0", "1", "2", "3", "4", "5", "6", "7", "8", "9"}

\* recognize(many1(..)) over a character class: the n >= 1 leading
\* characters of the class
Recognized(input, n) ==
    IF n = 0 THEN NomError
    ELSE NomOk(SubSeq(input, n + 1, Len(input)), SubSeq(input, 1, n))

\* identifier_parser: letters, digits and underscores; its value is the
\* string of the Identifier atom
identifier_parser(input) ==
    Recognized(input, Leading(input, AlphaNumerics \cup {"_"}))

\* the closing quote of string_parser, after n characters of the string
Closed(input, n, quote) ==
    IF quote.end # "ok" THEN quote ELSE NomOk(quote.rest, SubSeq(input, 1, n))

\* the inside of string_parser, after the opening quote: letters, digits,
\* spaces and underscores
Quoted(input, n) == Closed(input, n, tag(SubSeq(input, n + 1, Len(input)), <<"'">>))

\* delimited(tag("'"), .., tag("'")) once the opening quote is parsed
Opened(quote) ==
    IF quote.end # "ok" THEN quote
    ELSE Quoted(quote.rest, Leading(quote.rest, AlphaNumerics \cup {" ", "_"}))

\* string_parser; its value is the string of the String atom
string_parser(input) == Opened(tag(input, <<"'">>))

\* preceded(p, tag(word)), r the outcome of p
ThenTag(r, word) == IF r.end # "ok" THEN r ELSE tag(r.rest, word)

\* scope_symbol
scope_symbol(input) == ThenTag(tag(input, <<Sigil>>), kSCOPE)

\* preceded(p, multispace1), r the outcome of p
ThenSpace(r) == IF r.end # "ok" THEN r ELSE multispace1(r.rest)

\* preceded(p, identifier_parser), r the outcome of p
ThenIdentifier(r) == IF r.end # "ok" THEN r ELSE identifier_parser(r.rest)

\* the preamble of scope_definition_parser
preamble(input) == ThenIdentifier(ThenSpace(scope_symbol(input)))

\* an atom with one number: Samples, Rate, DotSize, LineSize, TextSize
Atom1(atom, r) ==
    IF r.end # "ok" THEN r ELSE NomOk(r.rest, [atom |-> atom, n |-> r.value])

\* separated_pair(decimal, multispace1, decimal) once x is parsed
PairWith(x, second) ==
    IF second.end # "ok" THEN second ELSE NomOk(second.rest, <<x, second.value>>)

SecondDecimal(first) ==
    IF first.end # "ok" THEN first ELSE PairWith(first.value, AfterKeyword(first))

\* an atom with two numbers: Pos, Size
Atom2(atom, r) ==
    IF r.end # "ok" THEN r
    ELSE NomOk(r.rest, [atom |-> atom, x |-> r.value[1], y |-> r.value[2]])

\* the Title atom
AtomTitle(r) ==
    IF r.end # "ok" THEN r ELSE NomOk(r.rest, [atom |-> "Title", title |-> r.value])

\* preceded(p, string_parser), r the outcome of p
ThenString(r) == IF r.end # "ok" THEN r ELSE string_parser(r.rest)

title_parser(input) ==
    AtomTitle(ThenString(ThenSpace(tag(input, <<"T", "I", "T", "L", "E">>))))

pos_parser(input) ==
    Atom2("Pos", SecondDecimal(AfterKeyword(tag(input, <<"P", "O", "S">>))))

size_parser(input) == Atom2("Size", SecondDecimal(AfterKeyword(tag(input, kSIZE))))

samples_parser(input) == Atom1("Samples", AfterKeyword(tag(input, kSAMPLES)))

rate_parser(input) == Atom1("Rate", AfterKeyword(tag(input, <<"R", "A", "T", "E">>)))

dotsize_parser(input) ==
    Atom1("DotSize", AfterKeyword(tag(input, <<"D", "O", "T", "S", "I", "Z", "E">>)))

linesize_parser(input) ==
    Atom1("LineSize",
          AfterKeyword(tag(input, <<"L", "I", "N", "E", "S", "I", "Z", "E">>)))

textsize_parser(input) ==
    Atom1("TextSize",
          AfterKeyword(tag(input, <<"T", "E", "X", "T", "S", "I", "Z", "E">>)))

\* preceded(multispace1, color_value_parser)
SpacedColour(sp) == IF sp.end # "ok" THEN sp ELSE color_value_parser(sp.rest)

\* the Color atom: background, and grid when a second colour was parsed
AtomColour(first, second) ==
    IF second.end = "panicked" THEN second
    ELSE IF second.end = "error"
    THEN NomOk(first.rest, [atom |-> "Color", background |-> first.value,
                            grid |-> [some |-> FALSE]])
    ELSE NomOk(second.rest, [atom |-> "Color", background |-> first.value,
                             grid |-> [some |-> TRUE, value |-> second.value]])

\* many_m_n(1, 2, ..): the first colour is needed, the second is optional
Colours(first) ==
    IF first.end # "ok" THEN first
    ELSE AtomColour(first, SpacedColour(multispace1(first.rest)))

\* preceded(color_keyword, ..) once the keyword is parsed
AfterColourKeyword(kw) ==
    IF kw.end # "ok" THEN kw ELSE Colours(SpacedColour(multispace1(kw.rest)))

color_parser(input) == AfterColourKeyword(tag(input, <<"C", "O", "L", "O", "R">>))

\* the alt of the nine configuration parsers, in its order
configuration(input) ==
    OrElse(title_parser(input),
    OrElse(pos_parser(input),
    OrElse(size_parser(input),
    OrElse(samples_parser(input),
    OrElse(rate_parser(input),
    OrElse(dotsize_parser(input),
    OrElse(linesize_parser(input),
    OrElse(textsize_parser(input), color_parser(input)))))))))

\* preceded(multispace1, alt(..)), sp the outcome of multispace1
SpacedConfiguration(sp) == IF sp.end # "ok" THEN sp ELSE configuration(sp.rest)

RECURSIVE Many0Configurations(_, _)

\* one round of many0: on Err(Error) it returns what it has and the input
\* of this round; r is the outcome of the round's parser
Many0Round(input, acc, r) ==
    IF r.end = "error" THEN NomOk(input, acc)
    ELSE IF r.end = "panicked" THEN r
    ELSE Many0Configurations(r.rest, Append(acc, r.value))

\* many0(preceded(multispace1, alt(..)))
Many0Configurations(input, acc) ==
    Many0Round(input, acc, SpacedConfiguration(multispace1(input)))

\* the configurations, after the multispace1 that separates them from the
\* preamble
AfterSeparator(sp) ==
    IF sp.end # "ok" THEN sp ELSE Many0Configurations(sp.rest, <<>>)

\* the SCOPE instruction built at the end of scope_definition_parser
ScopeInstruction(identifier, confs) ==
    IF confs.end # "ok" THEN confs
    ELSE NomOk(confs.rest, [name |-> identifier, configurations |-> confs.value])

\* separated_pair(preamble, multispace1, configurations) once the preamble
\* is parsed
AfterPreamble(pre) ==
    IF pre.end # "ok" THEN pre
    ELSE ScopeInstruction(pre.value, AfterSeparator(multispace1(pre.rest)))

scope_definition_parser(input) == AfterPreamble(preamble(input))

(***************************************************************************)
(* scope_definition_parser on its own: one call, on the line `SCOPE, a     *)
(* name and up to MaxClauses clauses, separated by single spaces.          *)
(***************************************************************************)
\* the line of a name and clauses
DeclarationLine(a) == Join(<<Key(kSCOPE), a.name>> \o Flat(a.clauses))

\* the call scope_definition_parser(line of arg)
ParseScopeDefinition ==
    /\ ~result.called
    /\ Parsed_by(scope_definition_parser(DeclarationLine(arg)))
    /\ UNCHANGED <<objects, status, last, nfed, fed, arg, bytes, wire, chan, received>>

NextDefinition == ParseScopeDefinition

SpecDefinition == InitConfig /\ [][NextDefinition]_vars

\* the atom a well-formed clause stands for
AtomSaid(clause) ==
    IF clause.kind = "size"
    THEN [atom |-> "Size", x |-> clause.w, y |-> clause.h]
    ELSE [atom |-> "Samples", n |-> clause.n]

\* C27: scope_definition_parser, on `SCOPE MyScope followed by j >= 1
\* well-formed SIZE and SAMPLES clauses, consumes the whole line and returns
\* the name with exactly those j configurations in order; name and sample
\* count are those ScopeConfig::from_tokens decodes from the same tokens.
C27_GrammarDecodesClauses ==
    (/\ result.called
     /\ arg.name = tMyScope
     /\ Len(arg.clauses) >= 1
     /\ \A i \in 1..Len(arg.clauses) : arg.clauses[i].kind \in {"size", "samples"}) =>
        /\ result.end = "ok"
        /\ result.rest = <<>>
        /\ result.value.name = tMyScope
        /\ result.value.name =
               ScopeConfig_from_tokens(<<arg.name>> \o Flat(arg.clauses)).name
        /\ Len(result.value.configurations) = Len(arg.clauses)
        /\ \A i \in 1..Len(arg.clauses) :
               result.value.configurations[i] = AtomSaid(arg.clauses[i])
        /\ LastOfKind(arg.clauses, "samples").kind = "samples" =>
               LastOfKind(arg.clauses, "samples").n =
                   ScopeConfig_from_tokens(<<arg.name>> \o Flat(arg.clauses)).samples

====
